---- MODULE Spec2Model ----
(***************************************************************************)
(* Model of the thumbnail compositor of sharkroll-ai-imagegen              *)
(* (utils/imageUtils: loadImage, getDominantColor, compositeFinalImage).   *)
(*                                                                         *)
(* One call of compositeFinalImage is followed statement group by          *)
(* statement group; pc is the position in the function body.               *)
(*                                                                         *)
(* Numbers: JavaScript numbers are modelled as exact rationals             *)
(* [num, den] in lowest terms with den > 0, so 0.9, 0.12, 1.1 ... are the  *)
(* decimal fractions the source writes; IEEE-754 rounding (at most one ulp *)
(* per operation) is not modelled.                                         *)
(* Strings are sequences of one-character strings.                         *)
(***************************************************************************)
EXTENDS Integers, Sequences, FiniteSets, TLC

(***************************************************************************)
(* Bounds of the explored inputs.                                          *)
(***************************************************************************)
\* source images are 1..MaxSrc pixels wide and high
MaxSrc == 3
\* target canvases of the geometry cases are 1..MaxDim wide and high
MaxDim == 6
\* canvases of the sampling cases are 1..MaxBandW wide
MaxBandW == 21
\* the image content repeats with this period
TexPeriod == 3
\* a title has at most MaxWords words
MaxWords == 3
\* a glyph advances 0..MaxAdv half-em
MaxAdv == 3

(***************************************************************************)
(* Rational arithmetic (JavaScript number arithmetic, exact).              *)
(***************************************************************************)
Abs(n) == IF n < 0 THEN -n ELSE n

RECURSIVE GCD(_, _)
GCD(a, b) == IF b = 0 THEN a ELSE GCD(b, a % b)

Rat(n, d) ==
    LET s == IF d < 0 THEN -1 ELSE 1
        g == GCD(Abs(n), Abs(d))
    IN  [num |-> (s * n) \div g, den |-> (s * d) \div g]

Num(n) == Rat(n, 1)
RAdd(p, q) == Rat(p.num * q.den + q.num * p.den, p.den * q.den)
RSub(p, q) == Rat(p.num * q.den - q.num * p.den, p.den * q.den)
RMul(p, q) == Rat(p.num * q.num, p.den * q.den)
RDiv(p, q) == Rat(p.num * q.den, p.den * q.num)
RLt(p, q) == p.num * q.den < q.num * p.den
RLe(p, q) == p.num * q.den <= q.num * p.den
RGt(p, q) == RLt(q, p)
RGe(p, q) == RLe(q, p)
\* Math.floor
RFloor(p) == p.num \div p.den
RIsInt(p) == p.den = 1

(***************************************************************************)
(* Strings.                                                                *)
(***************************************************************************)
Space == " "
Empty == << >>

\* String.prototype.toUpperCase, on the letters the titles and the default
\* provider name use
UpperOf(c) ==
    CASE c = "a" -> "A" [] c = "r" -> "R" [] c = "o" -> "O" [] c = "v" -> "V"
      [] c = "i" -> "I" [] c = "d" -> "D" [] c = "e" -> "E" [] OTHER -> c
toUpperCase(s) == [i \in 1..Len(s) |-> UpperOf(s[i])]

\* String.prototype.split(' '): always at least one piece
RECURSIVE SplitFrom(_, _, _, _)
SplitFrom(s, i, cur, acc) ==
    IF i > Len(s) THEN Append(acc, cur)
    ELSE IF s[i] = Space THEN SplitFrom(s, i + 1, Empty, Append(acc, cur))
    ELSE SplitFrom(s, i + 1, Append(cur, s[i]), acc)
split(s) == SplitFrom(s, 1, Empty, << >>)

\* String.prototype.trim
RECURSIVE TrimStart(_)
TrimStart(s) == IF s # Empty /\ Head(s) = Space THEN TrimStart(Tail(s)) ELSE s
RECURSIVE TrimEnd(_)
TrimEnd(s) ==
    IF s # Empty /\ s[Len(s)] = Space THEN TrimEnd(SubSeq(s, 1, Len(s) - 1)) ELSE s
trim(s) == TrimEnd(TrimStart(s))

\* decimal digits of a non-negative integer, as template literals print it
DigitChars == <<"0", "1", "2", "3", "4", "5", "6", "7", "8", "9">>
RECURSIVE NumberToString(_)
NumberToString(n) ==
    IF n < 10 THEN <<DigitChars[n + 1]>>
    ELSE NumberToString(n \div 10) \o <<DigitChars[(n % 10) + 1]>>

IsDigit(c) == \E d \in 1..10 : DigitChars[d] = c
DigitValue(c) == (CHOOSE d \in 1..10 : DigitChars[d] = c) - 1

\* themeColor.match(/\d+/g).map(Number): the maximal digit runs, as numbers
RECURSIVE MatchFrom(_, _, _, _, _)
MatchFrom(s, i, inRun, cur, acc) ==
    IF i > Len(s) THEN (IF inRun THEN Append(acc, cur) ELSE acc)
    ELSE IF IsDigit(s[i])
         THEN MatchFrom(s, i + 1, TRUE, (IF inRun THEN cur * 10 ELSE 0) + DigitValue(s[i]), acc)
         ELSE MatchFrom(s, i + 1, FALSE, 0, IF inRun THEN Append(acc, cur) ELSE acc)
MatchNumbers(s) == MatchFrom(s, 1, FALSE, 0, << >>)

(***************************************************************************)
(* Frame compositor: cover fit.                                            *)
(***************************************************************************)
\* the branch test of the cover fit: the image is relatively wider
CoverFitWider_Contain(imgW, imgH, W, H) == RLt(Rat(imgW, imgH), Rat(W, H))
CoverFitWider(imgW, imgH, W, H) == RGt(Rat(imgW, imgH), Rat(W, H))

\* drawWidth, drawHeight, offsetX, offsetY of the drawImage call
CoverFit(imgW, imgH, W, H) ==
    IF CoverFitWider(imgW, imgH, W, H)
    THEN LET drawWidth == RMul(Num(imgW), RDiv(Num(H), Num(imgH)))
         IN  [drawWidth  |-> drawWidth,
              drawHeight |-> Num(H),
              offsetX    |-> RDiv(RSub(Num(W), drawWidth), Num(2)),
              offsetY    |-> Num(0)]
    ELSE LET drawHeight == RMul(Num(imgH), RDiv(Num(W), Num(imgW)))
         IN  [drawWidth  |-> Num(W),
              drawHeight |-> drawHeight,
              offsetX    |-> Num(0),
              offsetY    |-> RDiv(RSub(Num(H), drawHeight), Num(2))]

(***************************************************************************)
(* The canvas: its size and the drawing calls made on its context.         *)
(***************************************************************************)
Black == <<0, 0, 0>>

NoCanvas == [width |-> 0, height |-> 0, ops |-> << >>]

\* document.createElement('canvas'); canvas.width = ...; canvas.height = ...
NewCanvas_Swapped(W, H) == [width |-> H, height |-> W, ops |-> << >>]
NewCanvas(W, H) == [width |-> W, height |-> H, ops |-> << >>]

\* a call on the 2d context is recorded; it never changes the size
Draw(cv, op) == [cv EXCEPT !.ops = Append(@, op)]

\* pixel (x, y) lies wholly inside the rectangle at (rx, ry) of size rw x rh
InRect(x, y, rx, ry, rw, rh) ==
    /\ RLe(rx, Num(x)) /\ RLe(Num(x + 1), RAdd(rx, rw))
    /\ RLe(ry, Num(y)) /\ RLe(Num(y + 1), RAdd(ry, rh))

\* the colour of the scaled image at canvas pixel (x, y): the content repeats
ImagePixel(image, W, x, y) == image.pixels[((y * W + x) % Len(image.pixels)) + 1]

\* the background colour of canvas pixel (x, y) after the first k drawing
\* calls: what the black fill and the image draw left there
RECURSIVE PixelAfter(_, _, _, _)
PixelAfter(cv, k, x, y) ==
    IF k = 0 THEN Black
    ELSE LET op == cv.ops[k]
         IN  IF op.op = "fillRect" /\ op.style = "#000" THEN Black
             ELSE IF op.op = "drawImage"
                     /\ InRect(x, y, op.dx, op.dy, op.dw, op.dh)
                  THEN ImagePixel(op.image, cv.width, x, y)
             ELSE PixelAfter(cv, k - 1, x, y)

\* ctx.getImageData(0, sy, sw, sh).data, one entry per pixel, row by row
getImageData(cv, sy, sw, sh) ==
    [i \in 1..(sw * sh) |->
        PixelAfter(cv, Len(cv.ops), (i - 1) % sw, sy + ((i - 1) \div sw))]

(***************************************************************************)
(* Theme sampler: getDominantColor.                                        *)
(***************************************************************************)
sampleHeightOf(height) == RFloor(RMul(Num(height), Rat(2, 10)))

\* for (let i = 0; i < count; i += 10) { r += ...; g += ...; b += ... }
RECURSIVE SampleLoop(_, _, _, _)
SampleLoop(data, i, count, rgb) ==
    IF i < count
    THEN SampleLoop(data, i + 10, count,
                    <<rgb[1] + data[i + 1][1], rgb[2] + data[i + 1][2],
                      rgb[3] + data[i + 1][3]>>)
    ELSE rgb

\* const actualCount = count / 10
actualCount(count) == Rat(count, 10)

\* `rgb(${r},${g},${b})`
FormatRgb(r, g, b) ==
    <<"r", "g", "b", "(">> \o NumberToString(r) \o <<",">> \o NumberToString(g)
        \o <<",">> \o NumberToString(b) \o <<")">>

getDominantColor(cv, width, height) ==
    LET sampleHeight == sampleHeightOf(height)
        startY == height - sampleHeight
        data == getImageData(cv, startY, width, sampleHeight)
        count == Len(data)
        sum == SampleLoop(data, 0, count, <<0, 0, 0>>)
        r == RFloor(RDiv(Num(sum[1]), actualCount(count)))
        g == RFloor(RDiv(Num(sum[2]), actualCount(count)))
        b == RFloor(RDiv(Num(sum[3]), actualCount(count)))
    IN  FormatRgb(r, g, b)

\* const [r,g,b] = rgbMatch ? rgbMatch.map(Number) : [0,0,0]
ParseRgb(themeColor) ==
    LET rgbMatch == MatchNumbers(themeColor)
    IN  IF rgbMatch = << >> THEN <<0, 0, 0>> ELSE rgbMatch

(***************************************************************************)
(* Gradient overlay.                                                       *)
(***************************************************************************)
Stop(offset, r, g, b, alpha) ==
    [offset |-> offset, r |-> r, g |-> g, b |-> b, alpha |-> alpha]

Scaled(c, f) == RMul(Num(c), f)
Truncated(c, f) == Num(RFloor(RMul(Num(c), f)))

GradientStops_Swapped(rgb) ==
    <<Stop(Num(0), Num(rgb[1]), Num(rgb[2]), Num(rgb[3]), Num(0)),
      Stop(Rat(6, 10), Scaled(rgb[1], Rat(2, 10)), Scaled(rgb[2], Rat(2, 10)),
           Scaled(rgb[3], Rat(2, 10)), Rat(8, 10)),
      Stop(Num(1), Scaled(rgb[1], Rat(5, 10)), Scaled(rgb[2], Rat(5, 10)),
           Scaled(rgb[3], Rat(5, 10)), Num(1))>>

GradientStops_Truncated(rgb) ==
    <<Stop(Num(0), Num(rgb[1]), Num(rgb[2]), Num(rgb[3]), Num(0)),
      Stop(Rat(6, 10), Truncated(rgb[1], Rat(5, 10)), Truncated(rgb[2], Rat(5, 10)),
           Truncated(rgb[3], Rat(5, 10)), Rat(8, 10)),
      Stop(Num(1), Truncated(rgb[1], Rat(2, 10)), Truncated(rgb[2], Rat(2, 10)),
           Truncated(rgb[3], Rat(2, 10)), Num(1))>>

\* the three gradient.addColorStop calls, in call order
GradientStops(rgb) ==
    <<Stop(Num(0), Num(rgb[1]), Num(rgb[2]), Num(rgb[3]), Num(0)),
      Stop(Rat(6, 10), Scaled(rgb[1], Rat(5, 10)), Scaled(rgb[2], Rat(5, 10)),
           Scaled(rgb[3], Rat(5, 10)), Rat(8, 10)),
      Stop(Num(1), Scaled(rgb[1], Rat(2, 10)), Scaled(rgb[2], Rat(2, 10)),
           Scaled(rgb[3], Rat(2, 10)), Num(1))>>

(***************************************************************************)
(* Text layout.                                                            *)
(***************************************************************************)
\* Math.floor(targetWidth * 0.12) and Math.floor(targetWidth * 0.05)
fontSizeNameOf(W) == RFloor(RMul(Num(W), Rat(12, 100)))
fontSizeProviderOf(W) == RFloor(RMul(Num(W), Rat(5, 100)))

\* fontSizeName * 1.1
lineHeightOf(W) == RMul(Num(fontSizeNameOf(W)), Rat(11, 10))

\* targetWidth * 0.9
maxWidthOf_Full(W) == Num(W)
maxWidthOf(W) == RMul(Num(W), Rat(9, 10))

\* ctx.measureText(s).width under ctx.font = `${fontSize}px`: the glyph
\* advances of the font (in half-em) add up and scale with the font size
RECURSIVE AdvanceSum(_, _)
AdvanceSum(fnt, s) == IF s = Empty THEN 0 ELSE fnt[Head(s)] + AdvanceSum(fnt, Tail(s))
measureText(fnt, fontSize, s) == Rat(fontSize * AdvanceSum(fnt, s), 2)

\* if (testWidth > maxWidth && n > 0)
WrapBreaks_SkipSecond(testWidth, maxWidth, n) == RGt(testWidth, maxWidth) /\ n > 1
WrapBreaks(testWidth, maxWidth, n) == RGt(testWidth, maxWidth) /\ n > 0

\* the loop with the breaking word left out of the new line
RECURSIVE WrapLoop_DropsWord(_, _, _, _, _, _, _)
WrapLoop_DropsWord(words, n, line, lines, fnt, fontSize, maxWidth) ==
    IF n < Len(words)
    THEN LET testLine == line \o words[n + 1] \o <<Space>>
             testWidth == measureText(fnt, fontSize, testLine)
         IN  IF testWidth.num * maxWidth.den > maxWidth.num * testWidth.den /\ n > 0
             THEN WrapLoop_DropsWord(words, n + 1, Empty,
                                     Append(lines, line), fnt, fontSize, maxWidth)
             ELSE WrapLoop_DropsWord(words, n + 1, testLine, lines, fnt, fontSize,
                                     maxWidth)
    ELSE Append(lines, line)

\* for (let n = 0; n < words.length; n++) { ... }  lines.push(line)
RECURSIVE WrapLoop(_, _, _, _, _, _, _)
WrapLoop(words, n, line, lines, fnt, fontSize, maxWidth) ==
    IF n < Len(words)
    THEN LET testLine == line \o words[n + 1] \o <<Space>>
             testWidth == measureText(fnt, fontSize, testLine)
         IN  IF WrapBreaks(testWidth, maxWidth, n)
             THEN WrapLoop(words, n + 1, words[n + 1] \o <<Space>>,
                           Append(lines, line), fnt, fontSize, maxWidth)
             ELSE WrapLoop(words, n + 1, testLine, lines, fnt, fontSize, maxWidth)
    ELSE Append(lines, line)

WrapTitle(gameName, fnt, W) ==
    WrapLoop(split(toUpperCase(gameName)), 0, Empty, << >>, fnt,
             fontSizeNameOf(W), maxWidthOf(W))

\* the value of y when the title lines are drawn (keeps the pre-shift only)
TitleY_NoAnchor(gameName, nLines, W, H) ==
    LET y0 == RSub(Num(H), RMul(Num(H), Rat(18, 100)))
    IN  IF Len(gameName) > 15 THEN RSub(y0, lineHeightOf(W)) ELSE y0

\* the value of y when the title lines are drawn: y is set, shifted for a
\* long name, and then assigned again from the number of lines
TitleY(gameName, nLines, W, H) ==
    LET lineHeight == lineHeightOf(W)
        y0 == RSub(Num(H), RMul(Num(H), Rat(18, 100)))
        y1 == IF Len(gameName) > 15 THEN RSub(y0, lineHeight) ELSE y0
        y2 == RSub(RSub(Num(H), RMul(Num(H), Rat(15, 100))),
                   RMul(Num(nLines - 1), lineHeight))
    IN  y2

\* ctx.fillText(text, x, y) under ctx.font = `${size}px ...`
FillText(text, x, y, size) ==
    [op |-> "fillText", text |-> text, x |-> x, y |-> y, size |-> size]

\* for (let i = 0; i < lines.length; i++) ctx.fillText(lines[i].trim(), ...)
RECURSIVE DrawLines(_, _, _, _, _)
DrawLines(cv, lns, i, y, W) ==
    IF i < Len(lns)
    THEN DrawLines(Draw(cv, FillText(trim(lns[i + 1]), Rat(W, 2),
                                     RAdd(y, RMul(Num(i), lineHeightOf(W))),
                                     fontSizeNameOf(W))),
                   lns, i + 1, y, W)
    ELSE cv

\* targetHeight - (targetHeight * 0.05)
providerYOf(H) == RSub(Num(H), RMul(Num(H), Rat(5, 100)))

\* ctx.fillStyle = '#000'; ctx.fillRect(0, 0, targetWidth, targetHeight)
FillBlackOp(W, H) ==
    [op |-> "fillRect", style |-> "#000",
     x |-> Num(0), y |-> Num(0), w |-> Num(W), h |-> Num(H)]

\* ctx.drawImage(img, offsetX, offsetY, drawWidth, drawHeight)
DrawImageOp(image, f) ==
    [op |-> "drawImage", image |-> image,
     dx |-> f.offsetX, dy |-> f.offsetY, dw |-> f.drawWidth, dh |-> f.drawHeight]

\* ctx.fillStyle = gradient; ctx.fillRect(0, targetHeight * 0.4, targetWidth, targetHeight * 0.6)
GradientFillOp(W, H) ==
    [op |-> "fillRect", style |-> "gradient",
     x |-> Num(0), y |-> RMul(Num(H), Rat(4, 10)),
     w |-> Num(W), h |-> RMul(Num(H), Rat(6, 10))]

(***************************************************************************)
(* State of one compositeFinalImage call.                                  *)
(***************************************************************************)
VARIABLES
    pc,          \* position in compositeFinalImage
    args,        \* base64Image, gameName, providerName, targetWidth, targetHeight
    font,        \* glyph advances of the font the browser renders with
    img,         \* the HTMLImageElement loadImage resolved with
    canvas,      \* the canvas element and the calls made on its context
    fit,         \* drawWidth, drawHeight, offsetX, offsetY
    themeColor,  \* the string getDominantColor returned
    gradient,    \* the colour stops added to the gradient
    lines,       \* the wrapped title lines
    result       \* how the returned promise settled

compositorVars ==
    <<pc, args, font, img, canvas, fit, themeColor, gradient, lines, result>>

(***************************************************************************)
(* State of the App component: the loaded games, their processing status   *)
(* and the processGame calls that were started.                            *)
(***************************************************************************)
VARIABLES
    games,       \* useState<GameData[]>
    statuses,    \* useState<Record<string, ProcessingStatus>>
    parseError,  \* useState<string | null>, "" for null
    settings,    \* useState<AppSettings>: width and height
    runs,        \* the processGame calls in flight, in the order they were started
    started,     \* how many processGame calls were made
    composited   \* the last compositeFinalImage call that settled

appVars == <<games, statuses, parseError, settings, runs, started, composited>>

vars == <<pc, args, font, img, canvas, fit, themeColor, gradient, lines, result,
          games, statuses, parseError, settings, runs, started, composited>>

NoImage == [width |-> 0, height |-> 0, pixels |-> << >>]
NoFit == [drawWidth |-> Num(0), drawHeight |-> Num(0),
          offsetX |-> Num(0), offsetY |-> Num(0)]
Pending == [state |-> "pending", type |-> "", width |-> 0, height |-> 0, error |-> ""]
Rejected(error) ==
    [state |-> "rejected", type |-> "", width |-> 0, height |-> 0, error |-> error]

(***************************************************************************)
(* The explored inputs.                                                    *)
(***************************************************************************)
Glyphs == {"a", "A", Space}
\* capitals and the space advance 0..MaxAdv half-em, the small letter one
Fonts == {f \in [Glyphs -> 0..MaxAdv] : f["a"] = 1}
PlainFont == [c \in Glyphs |-> 1]

Palette == {Black, <<255, 255, 255>>, <<200, 0, 7>>}
Textures == [1..TexPeriod -> Palette]
PlainTexture == [i \in 1..TexPeriod |-> <<255, 255, 255>>]

\* a data URL that decodes to a w x h image with the given content
Decodable(w, h, pixels) ==
    [decodable |-> TRUE, width |-> w, height |-> h, pixels |-> pixels]
Undecodable == [decodable |-> FALSE, width |-> 0, height |-> 0, pixels |-> << >>]

Args(image, gameName, providerName, W, H) ==
    [base64Image |-> image, gameName |-> gameName, providerName |-> providerName,
     targetWidth |-> W, targetHeight |-> H]

Words == {Empty, <<"a">>, <<"A", "A", "A", "A", "A", "A", "A">>}
\* the titles of 1..k words joined by single spaces; an empty word stands
\* for a leading, trailing or doubled space
RECURSIVE TitlesUpTo(_)
TitlesUpTo(k) ==
    IF k <= 1 THEN Words
    ELSE LET shorter == TitlesUpTo(k - 1)
         IN  shorter \cup {t \o <<Space>> \o w : t \in shorter, w \in Words}
Titles == TitlesUpTo(MaxWords)
Providers == {Empty, <<"a", Space, "A">>}

\* every aspect ratio of source and target, plain content, no title
GeometryCases ==
    {[args |-> Args(Decodable(w, h, PlainTexture), Empty, p, W, H), font |-> PlainFont] :
        w \in 1..MaxSrc, h \in 1..MaxSrc, W \in 1..MaxDim, H \in 1..MaxDim,
        p \in Providers}

\* every content of the sampled band, for bands of 1..2*MaxBandW pixels
SamplingCases ==
    {[args |-> Args(Decodable(1, 1, t), <<"a">>, Empty, W, H), font |-> PlainFont] :
        t \in Textures, W \in 1..MaxBandW, H \in {5, 10}}

\* every title under every font, on canvases of font size 1 and 2
TitleCases ==
    {[args |-> Args(Decodable(1, 1, PlainTexture), t, Empty, W, 10), font |-> f] :
        t \in Titles, f \in Fonts, W \in {10, 17}}

FailureCases ==
    {[args |-> Args(Undecodable, <<"a">>, Empty, 10, 10), font |-> PlainFont]}

Cases == GeometryCases \cup SamplingCases \cup TitleCases \cup FailureCases

(***************************************************************************)
(* The first render of the App, and the compositor before any call.        *)
(***************************************************************************)
GameIds == {1, 2}

\* no entry in the statuses record
NoStatus ==
    [status |-> "none", original |-> FALSE, cleaned |-> FALSE, final |-> FALSE,
     error |-> ""]

CompositorInit ==
    /\ pc = "idle"
    /\ args = Args(Undecodable, Empty, Empty, 0, 0)
    /\ font = PlainFont
    /\ img = NoImage
    /\ canvas = NoCanvas
    /\ fit = NoFit
    /\ themeColor = Empty
    /\ gradient = << >>
    /\ lines = << >>
    /\ result = Pending

\* the App component as first rendered, with DEFAULT_SETTINGS
AppMounted ==
    /\ games = << >>
    /\ statuses = [i \in GameIds |-> NoStatus]
    /\ parseError = ""
    /\ runs = << >>
    /\ started = 0
    /\ composited = [image |-> Undecodable, canvas |-> NoCanvas, gradient |-> << >>,
                     lines |-> << >>, result |-> Pending]

Init == CompositorInit /\ AppMounted /\ settings = [width |-> 1080, height |-> 1920]

(***************************************************************************)
(* compositeFinalImage, step by step.                                      *)
(***************************************************************************)
\* compositeFinalImage(base64Image, gameName, providerName, targetWidth, targetHeight)
Invoke ==
    /\ pc = "idle"
    /\ \E c \in Cases : args' = c.args /\ font' = c.font
    /\ pc' = "loadImage"
    /\ UNCHANGED <<img, canvas, fit, themeColor, gradient, lines, result>>
    /\ UNCHANGED appVars

\* await loadImage(base64Image): img.onload
LoadImageResolve ==
    /\ pc = "loadImage"
    /\ args.base64Image.decodable
    /\ img' = [width |-> args.base64Image.width, height |-> args.base64Image.height,
               pixels |-> args.base64Image.pixels]
    /\ pc' = "createCanvas"
    /\ UNCHANGED <<args, font, canvas, fit, themeColor, gradient, lines, result>>
    /\ UNCHANGED appVars

\* await loadImage(base64Image): img.onerror rejects, the await throws
LoadImageReject ==
    /\ pc = "loadImage"
    /\ ~args.base64Image.decodable
    /\ result' = Rejected("load")
    /\ pc' = "rejected"
    /\ UNCHANGED <<args, font, img, canvas, fit, themeColor, gradient, lines>>
    /\ UNCHANGED appVars

\* createElement('canvas'), width, height, getContext('2d') gives a context
CreateCanvas ==
    /\ pc = "createCanvas"
    /\ canvas' = NewCanvas(args.targetWidth, args.targetHeight)
    /\ pc' = "coverFit"
    /\ UNCHANGED <<args, font, img, fit, themeColor, gradient, lines, result>>
    /\ UNCHANGED appVars

\* getContext('2d') gives null: throw new Error("Canvas context missing")
ContextMissing ==
    /\ pc = "createCanvas"
    /\ canvas' = NewCanvas(args.targetWidth, args.targetHeight)
    /\ result' = Rejected("Canvas context missing")
    /\ pc' = "rejected"
    /\ UNCHANGED <<args, font, img, fit, themeColor, gradient, lines>>
    /\ UNCHANGED appVars

ComputeCoverFit ==
    /\ pc = "coverFit"
    /\ fit' = CoverFit(img.width, img.height, args.targetWidth, args.targetHeight)
    /\ pc' = "fillBackground"
    /\ UNCHANGED <<args, font, img, canvas, themeColor, gradient, lines, result>>
    /\ UNCHANGED appVars

\* ctx.fillStyle = '#000'; ctx.fillRect(0, 0, targetWidth, targetHeight)
FillBackground ==
    /\ pc = "fillBackground"
    /\ canvas' = Draw(canvas, FillBlackOp(args.targetWidth, args.targetHeight))
    /\ pc' = "drawImage"
    /\ UNCHANGED <<args, font, img, fit, themeColor, gradient, lines, result>>
    /\ UNCHANGED appVars

\* the image draw followed at once by the gradient fill, before any sampling
DrawImage_ThenGradient ==
    /\ pc = "drawImage"
    /\ canvas' = Draw(Draw(canvas, DrawImageOp(img, fit)),
                      GradientFillOp(args.targetWidth, args.targetHeight))
    /\ pc' = "extractTheme"
    /\ UNCHANGED <<args, font, img, fit, themeColor, gradient, lines, result>>
    /\ UNCHANGED appVars

\* ctx.drawImage(img, offsetX, offsetY, drawWidth, drawHeight)
DrawImage ==
    /\ pc = "drawImage"
    /\ canvas' = Draw(canvas, DrawImageOp(img, fit))
    /\ pc' = "extractTheme"
    /\ UNCHANGED <<args, font, img, fit, themeColor, gradient, lines, result>>
    /\ UNCHANGED appVars

\* const themeColor = getDominantColor(ctx, targetWidth, targetHeight)
ExtractTheme ==
    /\ pc = "extractTheme"
    /\ sampleHeightOf(args.targetHeight) > 0
    /\ themeColor' = getDominantColor(canvas, args.targetWidth, args.targetHeight)
    /\ canvas' = Draw(canvas, [op |-> "getImageData"])
    /\ pc' = "addGradient"
    /\ UNCHANGED <<args, font, img, fit, gradient, lines, result>>
    /\ UNCHANGED appVars

\* getImageData of a band of height 0 throws IndexSizeError
ExtractThemeThrows ==
    /\ pc = "extractTheme"
    /\ sampleHeightOf(args.targetHeight) = 0
    /\ result' = Rejected("IndexSizeError")
    /\ pc' = "rejected"
    /\ UNCHANGED <<args, font, img, canvas, fit, themeColor, gradient, lines>>
    /\ UNCHANGED appVars

\* createLinearGradient, the three addColorStop calls, fillRect
AddGradient ==
    /\ pc = "addGradient"
    /\ gradient' = GradientStops(ParseRgb(themeColor))
    /\ canvas' = Draw(canvas, GradientFillOp(args.targetWidth, args.targetHeight))
    /\ pc' = "drawGameName"
    /\ UNCHANGED <<args, font, img, fit, themeColor, lines, result>>
    /\ UNCHANGED appVars

\* the game name: word wrap, anchor, one fillText per line
DrawGameName ==
    /\ pc = "drawGameName"
    /\ LET lns == WrapTitle(args.gameName, font, args.targetWidth)
           y == TitleY(args.gameName, Len(lns), args.targetWidth, args.targetHeight)
       IN  /\ lines' = lns
           /\ canvas' = DrawLines(canvas, lns, 0, y, args.targetWidth)
    /\ pc' = "drawProviderName"
    /\ UNCHANGED <<args, font, img, fit, themeColor, gradient, result>>
    /\ UNCHANGED appVars

\* ctx.fillText(providerName.toUpperCase(), targetWidth / 2, providerY)
DrawProviderName ==
    /\ pc = "drawProviderName"
    /\ canvas' = Draw(canvas, FillText(toUpperCase(args.providerName),
                                       Rat(args.targetWidth, 2),
                                       providerYOf(args.targetHeight),
                                       fontSizeProviderOf(args.targetWidth)))
    /\ pc' = "toDataURL"
    /\ UNCHANGED <<args, font, img, fit, themeColor, gradient, lines, result>>
    /\ UNCHANGED appVars

\* return canvas.toDataURL('image/png')
ToDataURL ==
    /\ pc = "toDataURL"
    /\ result' = [state |-> "resolved", type |-> "image/png",
                  width |-> canvas.width, height |-> canvas.height, error |-> ""]
    /\ canvas' = Draw(canvas, [op |-> "toDataURL"])
    /\ pc' = "resolved"
    /\ UNCHANGED <<args, font, img, fit, themeColor, gradient, lines>>
    /\ UNCHANGED appVars

Next ==
    \/ Invoke
    \/ LoadImageResolve
    \/ LoadImageReject
    \/ CreateCanvas
    \/ ContextMissing
    \/ ComputeCoverFit
    \/ FillBackground
    \/ DrawImage
    \/ ExtractTheme
    \/ ExtractThemeThrows
    \/ AddGradient
    \/ DrawGameName
    \/ DrawProviderName
    \/ ToDataURL

Spec == Init /\ [][Next]_vars

(***************************************************************************)
(* The App component: Load Data, Process All, Retry and processGame.       *)
(***************************************************************************)
MaxRuns == 2

Game(id, name, providerName) ==
    [id |-> id, name |-> name, providerName |-> providerName, gameThumbnail |-> "url"]
G1 == Game(1, <<"a">>, <<"a", Space, "A">>)
G2 == Game(2, <<"A", Space, "a">>, Empty)
Nameless == Game(2, Empty, Empty)

\* the text of the input box: blank, not JSON, or JSON for one object or an array
Blank == [text |-> "blank", isArray |-> TRUE, items |-> << >>]
Unparsable == [text |-> "unparsable", isArray |-> TRUE, items |-> << >>]
Json(isArray, items) == [text |-> "json", isArray |-> isArray, items |-> items]
JsonInputs ==
    {Blank, Unparsable, Json(TRUE, <<Nameless>>), Json(FALSE, <<G1>>),
     Json(TRUE, <<G1, Nameless, G2>>)}

\* the sizes saved in the settings dialog
SavedSettings == {[width |-> 10, height |-> 10], [width |-> 6, height |-> 3]}

\* what the image model answers with: a data URL, of an image or not
GeneratedImages == {Undecodable, Decodable(2, 3, PlainTexture)}

\* g.id && g.name && g.gameThumbnail
Valid(g) == g.id # 0 /\ g.name # Empty /\ g.gameThumbnail # ""

\* if (!Array.isArray(parsed)) parsed = [parsed]
ArrayOf(input) == IF input.isArray THEN input.items ELSE <<input.items[1]>>

\* { id: g.id, status: 'idle' }
Idle == [NoStatus EXCEPT !.status = "idle"]

\* { ...prev[id], ...update }
Merge(prev, update) ==
    [f \in DOMAIN prev |-> IF f \in DOMAIN update THEN update[f] ELSE prev[f]]
updateStatus(sts, id, update) == [sts EXCEPT ![id] = Merge(@, update)]

\* the message property of what was thrown: an Error has one, the load
\* Event that loadImage rejects with has none
MessageOf(error) == IF error = "load" THEN "" ELSE error

\* the catch of processGame without its fallback text
CatchMessage_NoFallback(message) == message

\* error.message || "Unknown error"
CatchMessage(message) == IF message = "" THEN "Unknown error" ELSE message

\* game.providerName || "Provider"
ProviderOf(game) ==
    IF game.providerName = Empty THEN <<"P", "r", "o", "v", "i", "d", "e", "r">>
    ELSE game.providerName

\* a processGame call that has made its first updateStatus and awaits urlToBase64
NewRun(game, stg) ==
    [id |-> game.id, name |-> game.name, providerName |-> ProviderOf(game),
     width |-> stg.width, height |-> stg.height, stage |-> "downloading",
     image |-> Undecodable]

\* the calls in flight without the one that returned
RemoveAt(rs, r) == SubSeq(rs, 1, r - 1) \o SubSeq(rs, r + 1, Len(rs))

\* compositeFinalImage from the resolution of loadImage to its return
CompositeSync(image, gameName, providerName, W, H, fnt, hasContext) ==
    LET created == NewCanvas(W, H)
        f == CoverFit(image.width, image.height, W, H)
        drawn == Draw(Draw(created, FillBlackOp(W, H)),
                      DrawImageOp([width |-> image.width, height |-> image.height,
                                   pixels |-> image.pixels], f))
        theme == getDominantColor(drawn, W, H)
        lns == WrapTitle(gameName, fnt, W)
        titled == DrawLines(Draw(Draw(drawn, [op |-> "getImageData"]),
                                 GradientFillOp(W, H)),
                            lns, 0, TitleY(gameName, Len(lns), W, H), W)
        signed == Draw(titled, FillText(toUpperCase(providerName), Rat(W, 2),
                                        providerYOf(H), fontSizeProviderOf(W)))
    IN  IF ~hasContext
        THEN [image |-> image, canvas |-> created, gradient |-> << >>,
              lines |-> << >>, result |-> Rejected("Canvas context missing")]
        ELSE IF sampleHeightOf(H) = 0
        THEN [image |-> image, canvas |-> drawn, gradient |-> << >>,
              lines |-> << >>, result |-> Rejected("IndexSizeError")]
        ELSE [image |-> image, canvas |-> Draw(signed, [op |-> "toDataURL"]),
              gradient |-> GradientStops(ParseRgb(theme)), lines |-> lns,
              result |-> [state |-> "resolved", type |-> "image/png",
                          width |-> created.width, height |-> created.height,
                          error |-> ""]]

\* the App with a size saved in the settings dialog
AppInit == CompositorInit /\ AppMounted /\ settings \in SavedSettings

\* handleJsonChange: the input box is edited
HandleJsonChange ==
    /\ parseError' = ""
    /\ UNCHANGED <<games, statuses, settings, runs, started, composited>>
    /\ UNCHANGED compositorVars

\* parseGames: the Load Data button, with the text the box holds
ParseGames ==
    /\ \E jsonInput \in JsonInputs :
        IF jsonInput.text = "blank"
        THEN UNCHANGED <<games, statuses, parseError>>
        ELSE IF jsonInput.text = "unparsable"
        THEN /\ parseError' = "Invalid JSON format. Please check your input."
             /\ UNCHANGED <<games, statuses>>
        ELSE LET validGames == SelectSeq(ArrayOf(jsonInput), Valid)
             IN  IF Len(validGames) = 0
                 THEN /\ parseError' = "No valid games found."
                      /\ UNCHANGED <<games, statuses>>
                 ELSE /\ games' = validGames
                      /\ statuses' =
                           [i \in GameIds |->
                               IF \E k \in 1..Len(validGames) : validGames[k].id = i
                               THEN Idle ELSE NoStatus]
                      /\ UNCHANGED parseError
    /\ UNCHANGED <<settings, runs, started, composited>>
    /\ UNCHANGED compositorVars

\* games.forEach: processGame(game) for the games that this render shows as
\* idle or in error, each up to its first await
RECURSIVE StartAll(_, _, _)
StartAll(k, sts, rs) ==
    IF k > Len(games) THEN [statuses |-> sts, runs |-> rs]
    ELSE IF statuses[games[k].id].status \in {"idle", "error"}
    THEN StartAll(k + 1,
                  updateStatus(sts, games[k].id,
                               [status |-> "downloading", error |-> ""]),
                  Append(rs, NewRun(games[k], settings)))
    ELSE StartAll(k + 1, sts, rs)

\* processAll: the Process All button, enabled when games are loaded
ProcessAll ==
    /\ Len(games) # 0
    /\ LET all == StartAll(1, statuses, runs)
       IN  /\ started + Len(all.runs) - Len(runs) <= MaxRuns
           /\ statuses' = all.statuses
           /\ runs' = all.runs
           /\ started' = started + Len(all.runs) - Len(runs)
    /\ UNCHANGED <<games, parseError, settings, composited>>
    /\ UNCHANGED compositorVars

\* onRetry: the Retry button of a card, shown while its status is 'error'
Retry(k) ==
    /\ statuses[games[k].id].status = "error"
    /\ started < MaxRuns
    /\ statuses' = updateStatus(statuses, games[k].id,
                                [status |-> "downloading", error |-> ""])
    /\ runs' = Append(runs, NewRun(games[k], settings))
    /\ started' = started + 1
    /\ UNCHANGED <<games, parseError, settings, composited>>
    /\ UNCHANGED compositorVars

\* the catch of processGame; the call returns
Caught(r, error) ==
    /\ statuses' = updateStatus(statuses, runs[r].id,
                                [status |-> "error",
                                 error |-> CatchMessage(MessageOf(error))])
    /\ runs' = RemoveAt(runs, r)

\* urlToBase64 resolves: originalImageBase64, 'generating', the model is called
DownloadResolve(r) ==
    /\ runs[r].stage = "downloading"
    /\ statuses' = updateStatus(updateStatus(statuses, runs[r].id,
                                             [original |-> TRUE]),
                                runs[r].id, [status |-> "generating"])
    /\ runs' = [runs EXCEPT ![r].stage = "generating"]
    /\ UNCHANGED <<games, parseError, settings, started, composited>>
    /\ UNCHANGED compositorVars

\* urlToBase64 rejects
DownloadReject(r) ==
    /\ runs[r].stage = "downloading"
    /\ Caught(r, "Failed to load image")
    /\ UNCHANGED <<games, parseError, settings, started, composited>>
    /\ UNCHANGED compositorVars

\* generatePortraitImage resolves: cleanedImageBase64, 'compositing',
\* compositeFinalImage is called and awaits loadImage
GenerateResolve(r) ==
    /\ runs[r].stage = "generating"
    /\ statuses' = updateStatus(updateStatus(statuses, runs[r].id,
                                             [cleaned |-> TRUE]),
                                runs[r].id, [status |-> "compositing"])
    /\ \E image \in GeneratedImages :
          runs' = [runs EXCEPT ![r].stage = "compositing", ![r].image = image]
    /\ UNCHANGED <<games, parseError, settings, started, composited>>
    /\ UNCHANGED compositorVars

\* generatePortraitImage rejects
GenerateReject(r) ==
    /\ runs[r].stage = "generating"
    /\ Caught(r, "Failed to generate image")
    /\ UNCHANGED <<games, parseError, settings, started, composited>>
    /\ UNCHANGED compositorVars

\* loadImage rejects inside compositeFinalImage; processGame catches the Event
CompositeLoadReject(r) ==
    /\ runs[r].stage = "compositing"
    /\ ~runs[r].image.decodable
    /\ composited' = [image |-> runs[r].image, canvas |-> NoCanvas,
                      gradient |-> << >>, lines |-> << >>,
                      result |-> Rejected("load")]
    /\ Caught(r, "load")
    /\ UNCHANGED <<games, parseError, settings, started>>
    /\ UNCHANGED compositorVars

\* loadImage resolves: the rest of compositeFinalImage runs, then processGame
\* stores the final image or catches what was thrown
CompositeLoadResolve(r) ==
    /\ runs[r].stage = "compositing"
    /\ runs[r].image.decodable
    /\ \E hasContext \in BOOLEAN :
        LET out == CompositeSync(runs[r].image, runs[r].name, runs[r].providerName,
                                 runs[r].width, runs[r].height, PlainFont, hasContext)
        IN  /\ composited' = out
            /\ IF out.result.state = "resolved"
               THEN /\ statuses' = updateStatus(statuses, runs[r].id,
                                                [status |-> "complete",
                                                 final |-> TRUE])
                    /\ runs' = RemoveAt(runs, r)
               ELSE Caught(r, out.result.error)
    /\ UNCHANGED <<games, parseError, settings, started>>
    /\ UNCHANGED compositorVars

AppNext ==
    \/ HandleJsonChange
    \/ ParseGames
    \/ ProcessAll
    \/ \E k \in 1..Len(games) : Retry(k)
    \/ \E r \in 1..Len(runs) :
        \/ DownloadResolve(r)
        \/ DownloadReject(r)
        \/ GenerateResolve(r)
        \/ GenerateReject(r)
        \/ CompositeLoadReject(r)
        \/ CompositeLoadResolve(r)

SpecApp == AppInit /\ [][AppNext]_vars

(***************************************************************************)
(* Positions of the call, for the properties.                              *)
(***************************************************************************)
AfterSample == {"addGradient", "drawGameName", "drawProviderName", "toDataURL", "resolved"}
AfterGradient == {"drawGameName", "drawProviderName", "toDataURL", "resolved"}
AfterTitle == {"drawProviderName", "toDataURL", "resolved"}

\* the cover fit has been computed
FitDone ==
    \/ pc \in {"fillBackground", "drawImage", "extractTheme"} \cup AfterSample
    \/ pc = "rejected" /\ result.error = "IndexSizeError"

\* the canvas element exists
CanvasCreated ==
    \/ pc \in {"coverFit", "fillBackground", "drawImage", "extractTheme"} \cup AfterSample
    \/ pc = "rejected" /\ result.error # "load"

TargetW == args.targetWidth
TargetH == args.targetHeight
Zero == Num(0)

(***************************************************************************)
(* C1: cover fit. The rectangle the image is drawn into contains the       *)
(* whole canvas [0,W] x [0,H], one of its sides equals the canvas side     *)
(* exactly, and the overflow is the same on both sides of each axis.       *)
(***************************************************************************)
C1_CoverFitCoversCanvas ==
    FitDone =>
        /\ RLe(fit.offsetX, Zero)
        /\ RLe(fit.offsetY, Zero)
        /\ RGe(RAdd(fit.offsetX, fit.drawWidth), Num(TargetW))
        /\ RGe(RAdd(fit.offsetY, fit.drawHeight), Num(TargetH))
        /\ (fit.drawWidth = Num(TargetW) \/ fit.drawHeight = Num(TargetH))
        /\ RSub(Zero, fit.offsetX) = RSub(RAdd(fit.offsetX, fit.drawWidth), Num(TargetW))
        /\ RSub(Zero, fit.offsetY) = RSub(RAdd(fit.offsetY, fit.drawHeight), Num(TargetH))

\* an image relatively wider than the canvas was fitted: it overflows left and right
C1_Witness == FitDone /\ RLt(fit.offsetX, Zero) /\ fit.drawHeight = Num(TargetH)

(***************************************************************************)
(* Word wrap: what the properties measure.                                 *)
(***************************************************************************)
Limit == RMul(Num(TargetW), Rat(9, 10))
Measured(s) == measureText(font, fontSizeNameOf(TargetW), s)
\* every word of a line is followed by one space
WordCount(line) == Len(split(line)) - 1
FullTitle == toUpperCase(args.gameName)

(***************************************************************************)
(* C2: wrap width bound. A line of two or more words measures at most      *)
(* 0.9 * targetWidth, as the loop measured it (with its trailing space);   *)
(* a drawn line above the limit is a single word wider than the limit.     *)
(***************************************************************************)
C2_WrapWidthBound ==
    pc \in AfterTitle =>
        \A i \in 1..Len(lines) :
            /\ WordCount(lines[i]) >= 2 => RLe(Measured(lines[i]), Limit)
            /\ \/ RLe(Measured(trim(lines[i])), Limit)
               \/ /\ WordCount(lines[i]) = 1
                  /\ RGt(Measured(SubSeq(lines[i], 1, Len(lines[i]) - 1)), Limit)

\* a title that wrapped, with a line of several words and a line that is one
\* over-wide word
C2_Witness ==
    /\ pc \in AfterTitle
    /\ \E i \in 1..Len(lines) : WordCount(lines[i]) >= 2
    /\ \E i \in 1..Len(lines) :
            WordCount(lines[i]) = 1 /\ RGt(Measured(trim(lines[i])), Limit)

(***************************************************************************)
(* C3: a title wider than 0.9 * targetWidth is wrapped to more than one    *)
(* line (as claimed: every such title).                                    *)
(***************************************************************************)
C3_OverWideTitleSplits ==
    (pc \in AfterTitle /\ RGt(Measured(FullTitle), Limit)) => Len(lines) > 1

(***************************************************************************)
(* C3, amended: a title wider than 0.9 * targetWidth that contains a space *)
(* (two or more words) is wrapped to more than one line.                   *)
(***************************************************************************)
C3_OverWideTitleOfSeveralWordsSplits ==
    (/\ pc \in AfterTitle
     /\ RGt(Measured(FullTitle), Limit)
     /\ Len(split(FullTitle)) >= 2) => Len(lines) > 1

C3_Witness ==
    /\ pc \in AfterTitle
    /\ RGt(Measured(FullTitle), Limit)
    /\ Len(split(FullTitle)) >= 2
    /\ Len(lines) = 2

(***************************************************************************)
(* The fillText calls of the title: the first Len(lines) text calls.       *)
(***************************************************************************)
IsFillText(o) == o.op = "fillText"
TextCalls == SelectSeq(canvas.ops, IsFillText)
LineHeight == RMul(Num(fontSizeNameOf(TargetW)), Rat(11, 10))
Anchor == RSub(Num(TargetH), RMul(Num(TargetH), Rat(15, 100)))
Title14 == <<"A", "A", "A", "A", "A", "A", "A", "A", "A", "A", "A", "A", "A", "A">>

(***************************************************************************)
(* C4: long-title offset. A title of 16 or more characters that wraps to   *)
(* one line is drawn one line-height above where a 14-character one-line   *)
(* title is drawn on the same canvas.                                      *)
(***************************************************************************)
C4_LongTitleShiftedUp ==
    (pc \in AfterTitle /\ Len(lines) = 1 /\ Len(args.gameName) >= 16) =>
        TextCalls[1].y = RSub(TitleY(Title14, 1, TargetW, TargetH), LineHeight)

BandHeight == sampleHeightOf(TargetH)
\* the band as getDominantColor read it
Band == getImageData(canvas, TargetH - BandHeight, TargetW, BandHeight)
BandSum == SampleLoop(Band, 0, Len(Band), <<0, 0, 0>>)
\* the number of pixels the loop i = 0, 10, 20, ... < count reads
RECURSIVE VisitsFrom(_, _)
VisitsFrom(i, count) == IF i < count THEN 1 + VisitsFrom(i + 10, count) ELSE 0
Visited == VisitsFrom(0, Len(Band))
Theme == ParseRgb(themeColor)

(***************************************************************************)
(* C6: theme sampler divisor. Each channel getDominantColor returns is     *)
(* the channel sum divided by the number of pixels the loop visited,       *)
(* rounded down: the mean of the visited pixels.                           *)
(***************************************************************************)
C6_ThemeIsMeanOfVisited ==
    pc \in AfterSample =>
        \A k \in 1..3 : Theme[k] = BandSum[k] \div Visited

(***************************************************************************)
(* C7: theme colour range. Each channel getDominantColor returns is an     *)
(* integer in 0..255.                                                      *)
(***************************************************************************)
C7_ThemeChannelsAre8Bit ==
    pc \in AfterSample =>
        Len(Theme) = 3 /\ \A k \in 1..3 : Theme[k] \in 0..255

(***************************************************************************)
(* C8: output size. The canvas is created targetWidth x targetHeight,      *)
(* keeps that size through every step, and the PNG is encoded from a       *)
(* canvas of that size.                                                    *)
(***************************************************************************)
C8_OutputSize ==
    /\ CanvasCreated => canvas.width = TargetW /\ canvas.height = TargetH
    /\ pc = "resolved" =>
          /\ result.state = "resolved" /\ result.type = "image/png"
          /\ result.width = TargetW /\ result.height = TargetH

\* a finished composite of a canvas that is not square
C8_Witness == pc = "resolved" /\ result.width # result.height /\ Len(canvas.ops) >= 6

(***************************************************************************)
(* C9: gradient monotonicity (as claimed). For a theme colour in 0..255    *)
(* the alpha strictly increases over the three stops and every colour      *)
(* channel strictly decreases.                                             *)
(***************************************************************************)
C9_GradientStrictlyMonotone ==
    (pc \in AfterGradient /\ \A k \in 1..3 : Theme[k] \in 0..255) =>
        /\ RLt(gradient[1].alpha, gradient[2].alpha)
        /\ RLt(gradient[2].alpha, gradient[3].alpha)
        /\ RGt(gradient[1].r, gradient[2].r) /\ RGt(gradient[2].r, gradient[3].r)
        /\ RGt(gradient[1].g, gradient[2].g) /\ RGt(gradient[2].g, gradient[3].g)
        /\ RGt(gradient[1].b, gradient[2].b) /\ RGt(gradient[2].b, gradient[3].b)

\* channel values c1, c2, c3 never increase, and decrease strictly from c > 0
Darkens(c, c1, c2, c3) ==
    /\ c1 = Num(c)
    /\ RGe(c1, c2) /\ RGe(c2, c3)
    /\ c > 0 => RGt(c1, c2) /\ RGt(c2, c3)
    /\ c = 0 => c2 = Zero /\ c3 = Zero

(***************************************************************************)
(* C9, amended: the stops are at 0, 0.6 and 1, the alpha strictly          *)
(* increases (0, 0.8, 1), and every colour channel never increases; it     *)
(* strictly decreases exactly when the theme channel is above 0.           *)
(***************************************************************************)
C9_GradientMonotone ==
    pc \in AfterGradient =>
        /\ Len(gradient) = 3
        /\ gradient[1].offset = Zero /\ gradient[2].offset = Rat(6, 10)
        /\ gradient[3].offset = Num(1)
        /\ gradient[1].alpha = Zero /\ gradient[2].alpha = Rat(8, 10)
        /\ gradient[3].alpha = Num(1)
        /\ Darkens(Theme[1], gradient[1].r, gradient[2].r, gradient[3].r)
        /\ Darkens(Theme[2], gradient[1].g, gradient[2].g, gradient[3].g)
        /\ Darkens(Theme[3], gradient[1].b, gradient[2].b, gradient[3].b)

\* a gradient from a theme colour with a zero and a non-zero channel
C9_Witness == pc \in AfterGradient /\ Theme[1] > 0 /\ Theme[2] = 0

(***************************************************************************)
(* C10: gradient stop colour arithmetic (as claimed). The channel values   *)
(* of the 0.6 and 1.0 stops are c*0.5 and c*0.2 truncated to integers.     *)
(***************************************************************************)
C10_StopChannelsTruncated ==
    (pc \in AfterGradient /\ \A k \in 1..3 : Theme[k] \in 0..255) =>
        /\ gradient[2].r = Num((Theme[1] * 5) \div 10)
        /\ gradient[2].g = Num((Theme[2] * 5) \div 10)
        /\ gradient[2].b = Num((Theme[3] * 5) \div 10)
        /\ gradient[3].r = Num((Theme[1] * 2) \div 10)
        /\ gradient[3].g = Num((Theme[2] * 2) \div 10)
        /\ gradient[3].b = Num((Theme[3] * 2) \div 10)

(***************************************************************************)
(* C10, amended: the channel values of the 0.6 and 1.0 stops are exactly   *)
(* c/2 and c/5, not truncated: a fraction whenever c is odd, respectively  *)
(* not a multiple of 5.                                                    *)
(***************************************************************************)
C10_StopChannelsExact ==
    pc \in AfterGradient =>
        /\ gradient[2].r = Rat(Theme[1], 2) /\ gradient[3].r = Rat(Theme[1], 5)
        /\ gradient[2].g = Rat(Theme[2], 2) /\ gradient[3].g = Rat(Theme[2], 5)
        /\ gradient[2].b = Rat(Theme[3], 2) /\ gradient[3].b = Rat(Theme[3], 5)
        /\ RIsInt(gradient[2].r) <=> Theme[1] % 2 = 0
        /\ RIsInt(gradient[3].r) <=> Theme[1] % 5 = 0

\* a gradient whose 0.6 stop has a fractional red channel
C10_Witness ==
    pc \in AfterGradient /\ Theme[1] \in 0..255 /\ ~RIsInt(gradient[2].r)

(***************************************************************************)
(* The calls made on the context, by stage.                                *)
(***************************************************************************)
StageOf(o) ==
    CASE o.op = "fillRect" -> (IF o.style = "#000" THEN 1 ELSE 4)
      [] o.op = "drawImage" -> 2
      [] o.op = "getImageData" -> 3
      [] o.op = "fillText" -> 5
      [] o.op = "toDataURL" -> 6

\* the calls of cv follow the stage order: black fill, image, sample,
\* gradient, text, encode, none skipped, none but the text calls repeated
InStageOrder(cv) ==
    /\ cv.ops # << >> => StageOf(cv.ops[1]) = 1
    /\ \A i \in 1..(Len(cv.ops) - 1) :
        \/ StageOf(cv.ops[i + 1]) = StageOf(cv.ops[i]) + 1
        \/ StageOf(cv.ops[i]) = 5 /\ StageOf(cv.ops[i + 1]) = 5

\* the text calls of cv are the title lines, then the provider, each once
TextInOrder(cv, lns, providerName, W, H) ==
    LET texts == SelectSeq(cv.ops, IsFillText)
    IN  /\ Len(texts) = Len(lns) + 1
        /\ \A i \in 1..Len(lns) :
              texts[i].text = trim(lns[i]) /\ texts[i].size = fontSizeNameOf(W)
        /\ texts[Len(texts)].text = toUpperCase(providerName)
        /\ texts[Len(texts)].size = fontSizeProviderOf(W)
        /\ texts[Len(texts)].y = RSub(Num(H), RMul(Num(H), Rat(5, 100)))

(***************************************************************************)
(* C12: stage ordering. The context calls of a run are, in this order:     *)
(* black fill, image draw, theme sampling, gradient fill, the title lines, *)
(* the provider line, encode. When the theme is sampled only the black     *)
(* fill and the image draw have been made.                                 *)
(***************************************************************************)
C12_StageOrder ==
    /\ InStageOrder(canvas)
    /\ pc \in AfterSample =>
          /\ Len(canvas.ops) >= 3
          /\ StageOf(canvas.ops[1]) = 1 /\ StageOf(canvas.ops[2]) = 2
          /\ StageOf(canvas.ops[3]) = 3
          /\ themeColor = getDominantColor([canvas EXCEPT !.ops = SubSeq(@, 1, 2)],
                                           TargetW, TargetH)
    /\ pc = "resolved" =>
          /\ StageOf(canvas.ops[Len(canvas.ops)]) = 6
          /\ Len(canvas.ops) = Len(lines) + 6
          /\ TextInOrder(canvas, lines, args.providerName, TargetW, TargetH)

\* a finished run with a title of two lines and a provider line
C12_Witness ==
    pc = "resolved" /\ Len(lines) = 2 /\ Len(canvas.ops) = 8

(***************************************************************************)
(* C13: word wrap preserves content. The loop produces at least one line,  *)
(* and the words of the lines, read in order, are the words of the         *)
(* upper-cased title split at spaces: each once, in order, unsplit, and    *)
(* no small letter is left.                                                *)
(***************************************************************************)
\* the words of a line: what stands before each of its spaces
WordsOf(line) == SubSeq(split(line), 1, Len(split(line)) - 1)
RECURSIVE WordsOfAll(_)
WordsOfAll(lns) ==
    IF lns = << >> THEN << >> ELSE WordsOf(Head(lns)) \o WordsOfAll(Tail(lns))
\* the title in capitals, stated letter by letter
Capitals(s) == [i \in 1..Len(s) |-> IF s[i] = "a" THEN "A" ELSE s[i]]

C13_WrapPreservesWords ==
    pc \in AfterTitle =>
        /\ Len(lines) >= 1
        /\ \A i \in 1..Len(lines) : lines[i] # Empty /\ lines[i][Len(lines[i])] = Space
        /\ WordsOfAll(lines) = split(Capitals(args.gameName))

\* a title with a small letter and an empty word, wrapped to several lines
C13_Witness ==
    /\ pc \in AfterTitle
    /\ Len(lines) >= 2
    /\ \E i \in 1..Len(args.gameName) : args.gameName[i] = "a"
    /\ \E i \in 1..Len(split(args.gameName)) : split(args.gameName)[i] = Empty

(***************************************************************************)
(* C11: decode failure. When loadImage rejects, compositeFinalImage        *)
(* settles rejected with no canvas created, no drawing call made and no    *)
(* output; in the same step processGame sets the status of the game to     *)
(* 'error' with a message that is not empty and returns; no call is made   *)
(* again by the program itself: processGame calls start only in Process    *)
(* All and Retry steps.                                                    *)
(***************************************************************************)
\* the compositeFinalImage call of run r fails to decode its image, and
\* processGame returns
DecodeFails(r) ==
    /\ runs[r].stage = "compositing"
    /\ ~runs[r].image.decodable
    /\ composited'.result = Rejected("load")
    /\ runs' = RemoveAt(runs, r)

DecodeFailureReported(r) ==
    /\ composited'.canvas = NoCanvas
    /\ composited'.result.state = "rejected"
    /\ statuses'[runs[r].id].status = "error"
    /\ statuses'[runs[r].id].error # ""
    /\ started' = started

C11_DecodeFailure ==
    /\ [](composited.result = Rejected("load") =>
             /\ composited.canvas = NoCanvas
             /\ composited.gradient = << >> /\ composited.lines = << >>)
    /\ [][\A r \in 1..Len(runs) : DecodeFails(r) => DecodeFailureReported(r)]_vars
    /\ [][started' > started => ProcessAll \/ \E k \in 1..Len(games) : Retry(k)]_vars

\* a decode failure has been caught and shown on the card of its game
C11_Witness ==
    /\ composited.result = Rejected("load")
    /\ \E k \in 1..Len(games) :
          /\ statuses[games[k].id].status = "error"
          /\ statuses[games[k].id].error = "Unknown error"

(***************************************************************************)
(* C14: single pipeline per game. At most one processGame call is in       *)
(* flight for a game id; a status only advances idle/error -> downloading  *)
(* -> generating -> compositing -> complete, or to error from a stage in   *)
(* progress, or is reset by Load Data; a status 'complete' has the final   *)
(* image set, and a status other than 'error' has no error message.        *)
(***************************************************************************)
InFlightFor(i) == {r \in 1..Len(runs) : runs[r].id = i}

Advances(from, to) ==
    \/ from \in {"idle", "error"} /\ to = "downloading"
    \/ from = "downloading" /\ to \in {"generating", "error"}
    \/ from = "generating" /\ to \in {"compositing", "error"}
    \/ from = "compositing" /\ to \in {"complete", "error"}
    \/ to \in {"idle", "none"}

C14_SinglePipelinePerGame ==
    /\ [](\A i \in GameIds :
             /\ Cardinality(InFlightFor(i)) <= 1
             /\ statuses[i].status = "complete" => statuses[i].final
             /\ statuses[i].status # "error" => statuses[i].error = "")
    /\ [][\A i \in GameIds :
             statuses'[i].status # statuses[i].status =>
                 Advances(statuses[i].status, statuses'[i].status)]_vars

====
